---- MODULE Spec2Model ----
(***************************************************************************)
(* Request-dispatch pipeline of llm-sdk.                                   *)
(*                                                                         *)
(* One logical call:                                                       *)
(*   LlmSdk::new           builds the client: TracingMiddleware first      *)
(*                         (outermost), then RetryMiddleware               *)
(*   prepare_request       materialises the request                        *)
(*   RequestBuilder::send  runs the middleware stack in the order the      *)
(*                         middlewares were attached                       *)
(*   RetryMiddleware       forwards multipart / octet-stream requests      *)
(*                         straight to the transport, hands every other    *)
(*                         request to reqwest-retry's                      *)
(*                         RetryTransientMiddleware                        *)
(*   send_and_log          classifies the final exchange                   *)
(*                                                                         *)
(* Text (header values, response bodies, error messages) is a sequence of  *)
(* one-character strings so that substring tests and formatting are        *)
(* computed, not assumed.                                                  *)
(***************************************************************************)
EXTENDS Integers, Sequences, FiniteSets, TLC

VARIABLES
    max_retries,     \* LlmSdk::new argument, held by the retry policy
    pc,              \* position of the logical call
    req,             \* the prepared request: Content-Type header and body kind
    route,           \* "none" | "direct" (next.run) | "inner" (RetryTransientMiddleware)
    n_past_retries,  \* retry counter of RetryTransientMiddleware's loop
    in_flight,       \* number of attempts currently at the transport
    history,         \* outcomes of the attempts the transport has completed, in order
    mw_result,       \* what the middleware stack hands back to send()
    spans,           \* records made by TracingMiddleware (one per handle call)
    error_log,       \* texts emitted by tracing::error! in send_and_log
    result,          \* what send_and_log returns to the caller
    token,           \* LlmSdk::new argument, held by the LlmSdk
    timeout_wanted,  \* seconds the caller would like each attempt to be given
                     \* (0: no wish); LlmSdk::new has no argument to take it
    delays,          \* waits computed by the retry policy, jitter left out
    builder,         \* a request value as its builder built it
    wire,            \* what that request value is turned into: form parts or JSON
    sent,            \* the requests submitted to the transport, one per attempt
    concurrent       \* the calls that run at the same time on one LlmSdk

vars == <<max_retries, pc, req, route, n_past_retries, in_flight, history,
          mw_result, spans, error_log, result, token, timeout_wanted, delays,
          builder, wire, sent, concurrent>>

\* what no step of a call writes: the SDK's configuration and the request
\* value the call was given
fixed == <<max_retries, token, timeout_wanted, builder, wire, concurrent>>

----------------------------------------------------------------------------
\* Bounds

\* largest max_retries a client is built with
MaxRetriesBound == 3

----------------------------------------------------------------------------
\* Text

Q == "\""
BSL == "\\"
NL == "\n"

MULTIPART_FORM_DATA ==
    <<"m","u","l","t","i","p","a","r","t","/","f","o","r","m","-","d","a","t","a">>

APPLICATION_OCTET_STREAM ==
    <<"a","p","p","l","i","c","a","t","i","o","n","/",
      "o","c","t","e","t","-","s","t","r","e","a","m">>

APPLICATION_JSON ==
    <<"a","p","p","l","i","c","a","t","i","o","n","/","j","s","o","n">>

\* what reqwest's multipart() sets: the type followed by a boundary parameter
MULTIPART_WITH_BOUNDARY ==
    MULTIPART_FORM_DATA \o <<";"," ","b","o","u","n","d","a","r","y","=","x">>

MULTIPART_OTHER_CASE ==
    <<"M","u","l","t","i","p","a","r","t","/","F","o","r","m","-","D","a","t","a">>

OCTET_STREAM_WITH_PARAM ==
    APPLICATION_OCTET_STREAM \o <<";"," ","q","=","1">>

OCTET_STREAM_OTHER_CASE ==
    <<"A","p","p","l","i","c","a","t","i","o","n","/",
      "O","c","t","e","t","-","S","t","r","e","a","m">>

\* str::contains
Contains(s, pat) ==
    \E i \in 0..(Len(s) - Len(pat)) : SubSeq(s, i + 1, i + Len(pat)) = pat

----------------------------------------------------------------------------
\* The inputs: requests, and what the transport can answer

\* header::CONTENT_TYPE of the request: absent, present but not visible ASCII
\* (HeaderValue::to_str fails), or present with a readable value
NoHeader == [present |-> FALSE, readable |-> FALSE, value |-> <<>>]
OpaqueHeader == [present |-> TRUE, readable |-> FALSE, value |-> <<>>]
TextHeader(v) == [present |-> TRUE, readable |-> TRUE, value |-> v]

ContentTypeValues ==
    {APPLICATION_JSON, MULTIPART_FORM_DATA, MULTIPART_WITH_BOUNDARY,
     MULTIPART_OTHER_CASE, APPLICATION_OCTET_STREAM, OCTET_STREAM_WITH_PARAM}

Headers == {NoHeader, OpaqueHeader} \cup {TextHeader(v) : v \in ContentTypeValues}

\* a body held in memory can be cloned for a retry, a streaming body cannot
BodyKinds == {"bytes", "stream"}

\* what the repository's IntoRequest implementations build:
\* client.post(url).json(&self) and client.post(url).multipart(form)
\* (no Authorization header and no timeout yet: prepare_request adds them)
JsonRequest ==
    [method |-> "POST", url |-> "url",
     content_type |-> TextHeader(APPLICATION_JSON), body |-> "bytes",
     authorization |-> NoHeader, timeout |-> 0]
MultipartRequest ==
    [method |-> "POST", url |-> "url",
     content_type |-> TextHeader(MULTIPART_WITH_BOUNDARY), body |-> "stream",
     authorization |-> NoHeader, timeout |-> 0]

\* IntoRequest is a public trait: any header / body combination can reach
\* the middleware
Requests ==
    [method : {"POST"}, url : {"url"},
     content_type : Headers, body : BodyKinds,
     authorization : {NoHeader}, timeout : {0}]

NoRequest ==
    [method |-> "none", url |-> "none",
     content_type |-> NoHeader, body |-> "none",
     authorization |-> NoHeader, timeout |-> 0]

Statuses == {200, 302, 404, 408, 429, 503}

Bodies == {<<"o","k">>, <<"{",Q,"e",Q,"}">>}

\* reqwest errors of an attempt: "connect" covers DNS failure and connection
\* refusal (both is_connect), "timeout" the per-request timeout, "redirect"
\* a redirect-policy error
TransportErrors == {"connect", "timeout", "redirect"}

Response(st, b) == [kind |-> "response", status |-> st, body |-> b, error |-> "none"]
TransportError(e) == [kind |-> "error", status |-> 0, body |-> <<>>, error |-> e]
MiddlewareError(e) == [kind |-> "middleware_error", status |-> 0, body |-> <<>>, error |-> e]
Nothing == [kind |-> "none", status |-> 0, body |-> <<>>, error |-> "none"]

Outcomes ==
    {Response(st, b) : st \in Statuses, b \in Bodies}
        \cup {TransportError(e) : e \in TransportErrors}

----------------------------------------------------------------------------
\* LlmSdk::prepare_request

\* tokens an SDK is built with: none (the empty string) or some
Tokens == {<<>>, <<"s","k">>}

\* const TIMEOUT: u64 = 30
TIMEOUT == 30

BEARER == <<"B","e","a","r","e","r"," ">>

\* RequestBuilder::bearer_auth
bearer_auth(r, tok) == [r EXCEPT !.authorization = TextHeader(BEARER \o tok)]

\* mutant: the builder that timeout() returns is dropped
with_timeout_dropped(r, secs) == r

\* RequestBuilder::timeout(Duration::from_secs(..))
with_timeout(r, secs) == [r EXCEPT !.timeout = secs]

\* mutant: bearer_auth is called whatever the token
PreparedRequest_always_bearer(r, tok) ==
    with_timeout(bearer_auth(r, tok), TIMEOUT)

\* r: what into_request built
PreparedRequest(r, tok) ==
    with_timeout(IF tok = <<>> THEN r ELSE bearer_auth(r, tok), TIMEOUT)

----------------------------------------------------------------------------
\* http::StatusCode

is_success(status) == status >= 200 /\ status < 300
is_client_error(status) == status >= 400 /\ status < 500
is_server_error(status) == status >= 500 /\ status < 600

REQUEST_TIMEOUT == 408
TOO_MANY_REQUESTS == 429

----------------------------------------------------------------------------
\* RetryMiddleware::handle: which requests go to the retrying middleware

\* mutant: the type is compared for equality, so a boundary parameter hides it
NonRetryable_exact_match(content_type) ==
    \/ content_type = MULTIPART_FORM_DATA
    \/ content_type = APPLICATION_OCTET_STREAM

\* mutant: every application/ type is taken for a non-replayable body
NonRetryable_any_application(content_type) ==
    \/ Contains(content_type, MULTIPART_FORM_DATA)
    \/ Contains(content_type, SubSeq(APPLICATION_OCTET_STREAM, 1, 12))

\* mutant: both types are looked for anywhere in the value
NonRetryable_substring_both(content_type) ==
    \/ Contains(content_type, MULTIPART_FORM_DATA)
    \/ Contains(content_type, APPLICATION_OCTET_STREAM)

\* mutant: only multipart/form-data is taken for a non-replayable body
NonRetryable_multipart_only(content_type) ==
    Contains(content_type, MULTIPART_FORM_DATA)

NonRetryable(content_type) ==
    \/ Contains(content_type, MULTIPART_FORM_DATA)
    \/ content_type = APPLICATION_OCTET_STREAM

\* mutant: a request without a readable Content-Type is not retried
RouteOf_unknown_is_direct(header) ==
    IF ~(header.present /\ header.readable) THEN "direct"
    ELSE IF NonRetryable(header.value) THEN "direct"
    ELSE "inner"

RouteOf(header) ==
    IF ~(header.present /\ header.readable) THEN "inner"
    ELSE IF NonRetryable(header.value) THEN "direct"
    ELSE "inner"

----------------------------------------------------------------------------
\* RetryTransientMiddleware with the policy built by
\* ExponentialBackoff::builder().build_with_max_retries(max_retries)

\* Request::try_clone
try_clone(r) == r.body = "bytes"

\* mutant: the clone is a new request to the same URL, without the timeout
\* and the Authorization header of the prepared one
duplicate_request_bare(r) ==
    [method |-> r.method, url |-> r.url, content_type |-> r.content_type,
     body |-> r.body, authorization |-> NoHeader, timeout |-> 0]

\* what try_clone gives when it gives a request: method, URL, headers,
\* timeout and body of the original
duplicate_request(r) ==
    [method |-> r.method, url |-> r.url, content_type |-> r.content_type,
     body |-> r.body, authorization |-> r.authorization, timeout |-> r.timeout]

\* no call runs beside the one followed step by step
NoCalls == <<>>

\* mutant: every client error is retried, not only 408 and 429
default_on_request_success_retry_4xx(status) ==
    IF is_server_error(status) \/ is_client_error(status) THEN "Transient"
    ELSE IF is_success(status) THEN "None"
    ELSE "Fatal"

\* the default retryable strategy on a response
default_on_request_success(status) ==
    IF is_server_error(status) THEN "Transient"
    ELSE IF is_client_error(status)
            /\ status # REQUEST_TIMEOUT /\ status # TOO_MANY_REQUESTS THEN "Fatal"
    ELSE IF is_success(status) THEN "None"
    ELSE IF status = REQUEST_TIMEOUT \/ status = TOO_MANY_REQUESTS THEN "Transient"
    ELSE "Fatal"

\* mutant: an error of the attempt is never retried
default_on_request_failure_fatal(error) == "Fatal"

\* the default retryable strategy on an error of the attempt
default_on_request_failure(error) ==
    IF error \in {"timeout", "connect"} THEN "Transient" ELSE "Fatal"

\* mutant: whatever the attempt returned is retried while budget remains
Retryable_all_transient(outcome) == "Transient"

Retryable(outcome) ==
    IF outcome.kind = "response" THEN default_on_request_success(outcome.status)
    ELSE default_on_request_failure(outcome.error)

\* mutant: max counts the attempts, the first one included
should_retry_counts_first(n, max) == n + 1 < max

\* mutant: off by one, a retry is still granted when n = max
should_retry_inclusive(n, max) == n <= max

\* mutant: the first failure is retried whatever the maximum
should_retry_first_always(n, max) == n < max \/ n = 0

\* RetryPolicy::should_retry of the max-retries policy
should_retry(n, max) == n < max

\* the policy's defaults, in seconds: ExponentialBackoff::builder() sets
\* retry bounds of 1 second and 30 minutes and an exponent of 3
MIN_RETRY_INTERVAL == 1
MAX_RETRY_INTERVAL == 1800
BACKOFF_EXPONENT == 3

\* mutant: the same interval before every retry
unjittered_wait_for_constant(n) == MIN_RETRY_INTERVAL


\* the wait before the retry that follows n earlier ones, before jitter:
\* min_retry_interval * backoff_exponent^n, clipped to max_retry_interval
unjittered_wait_for(n) ==
    IF MIN_RETRY_INTERVAL * BACKOFF_EXPONENT ^ n > MAX_RETRY_INTERVAL
    THEN MAX_RETRY_INTERVAL
    ELSE MIN_RETRY_INTERVAL * BACKOFF_EXPONENT ^ n

\* no request value under construction
NoBuilder == [struct |-> "none", stage |-> "none"]
NoWire == [kind |-> "none"]

-----------------------------------------------------------------------------
\* Request values: derive_builder, the multipart form, serde

None == [some |-> FALSE]
Some(x) == [some |-> TRUE, v |-> x]

\* one field of a struct: how the builder fills it (required, default, or
\* default with setter(strip_option)), when serde skips it, and how its
\* value is written in JSON
Field(name, fill, skip, json) ==
    [name |-> name, fill |-> fill, skip |-> skip, json |-> json]

WhisperRequestFields == <<
    Field("file", "required", "never", "plain"),
    Field("model", "default", "never", "plain"),
    Field("language", "strip_option", "never", "plain"),
    Field("prompt", "strip_option", "never", "plain"),
    Field("response_format", "default", "never", "plain"),
    Field("temperature", "strip_option", "never", "plain"),
    Field("request_type", "required", "never", "plain") >>

ChatCompletionRequestFields == <<
    Field("messages", "required", "never", "messages"),
    Field("model", "default", "never", "enum"),
    Field("frequency_penalty", "strip_option", "Option::is_none", "plain"),
    Field("max_tokens", "strip_option", "Option::is_none", "plain"),
    Field("n", "strip_option", "Option::is_none", "plain"),
    Field("presence_penalty", "strip_option", "Option::is_none", "plain"),
    Field("response_format", "strip_option", "Option::is_none", "format_object"),
    Field("seed", "strip_option", "Option::is_none", "plain"),
    Field("stop", "strip_option", "Option::is_none", "plain"),
    Field("stream", "strip_option", "Option::is_none", "plain"),
    Field("temperature", "strip_option", "Option::is_none", "plain"),
    Field("top_p", "strip_option", "Option::is_none", "plain"),
    Field("tools", "default", "Vec::is_empty", "tools"),
    Field("tool_choice", "strip_option", "Option::is_none", "enum"),
    Field("user", "strip_option", "Option::is_none", "plain") >>

CreateImageRequestFields == <<
    Field("prompt", "required", "never", "plain"),
    Field("model", "default", "never", "enum"),
    Field("n", "strip_option", "Option::is_none", "plain"),
    Field("quality", "strip_option", "Option::is_none", "enum"),
    Field("response_format", "strip_option", "Option::is_none", "enum"),
    Field("size", "strip_option", "Option::is_none", "enum"),
    Field("style", "strip_option", "Option::is_none", "enum"),
    Field("user", "strip_option", "Option::is_none", "plain") >>

FieldsOf(struct) ==
    CASE struct = "WhisperRequest" -> WhisperRequestFields
      [] struct = "ChatCompletionRequest" -> ChatCompletionRequestFields
      [] struct = "CreateImageRequest" -> CreateImageRequestFields

Names(fields) == {fields[i].name : i \in DOMAIN fields}
FieldNamed(fields, n) == fields[CHOOSE i \in DOMAIN fields : fields[i].name = n]

\* #[default] of the enums, Vec::default() of the tools
DefaultOf(struct, n) ==
    CASE struct = "WhisperRequest" /\ n = "model" -> "Whisper1"
      [] struct = "WhisperRequest" /\ n = "response_format" -> "Json"
      [] struct = "ChatCompletionRequest" /\ n = "model" -> "Gpt3Turbo"
      [] struct = "ChatCompletionRequest" /\ n = "tools" -> <<>>
      [] struct = "CreateImageRequest" /\ n = "model" -> "DallE3"

\* mutant: an empty name is kept as a name
get_name_keeps_empty(name) == Some(name)

\* ChatCompletionMessage::get_name
get_name(name) == IF name = "" THEN None ELSE Some(name)

new_system(content, name) ==
    [role |-> "System", content |-> content, name |-> get_name(name)]
new_user(content, name) ==
    [role |-> "User", content |-> content, name |-> get_name(name)]

\* a constructor call of a message, and the message it makes
Call(ctor, content, name) == [ctor |-> ctor, content |-> content, name |-> name]
MakeMessage(c) ==
    IF c.ctor = "new_system" THEN new_system(c.content, c.name)
    ELSE new_user(c.content, c.name)
Messages(calls) == [i \in DOMAIN calls |-> MakeMessage(calls[i])]

\* Tool::new_function
new_function(name, description) ==
    [typ |-> "Function",
     function |-> [description |-> description, name |-> name]]

\* the argument a setter is called with, for the fields given one value
SampleArg(struct, n) ==
    CASE n = "file" -> <<1, 2>>
      [] n = "language" -> "en"
      [] n = "prompt" -> "draw"
      [] n = "temperature" -> 1
      [] n = "frequency_penalty" -> 1
      [] n = "presence_penalty" -> 1
      [] n = "top_p" -> 1
      [] n = "max_tokens" -> 16
      [] n = "n" -> 2
      [] n = "seed" -> 7
      [] n = "stop" -> "END"
      [] n = "stream" -> TRUE
      [] n = "user" -> "u1"
      [] n = "tool_choice" -> "Auto"
      [] n = "quality" -> "Hd"
      [] n = "size" -> "LargeWide"
      [] n = "style" -> "Natural"
      [] n = "model" /\ struct = "WhisperRequest" -> "Whisper1"
      [] n = "model" /\ struct = "ChatCompletionRequest" -> "Gpt4Turbo"
      [] n = "model" /\ struct = "CreateImageRequest" -> "DallE3"
      [] n = "response_format" /\ struct = "ChatCompletionRequest" -> [typ |-> "Json"]
      [] n = "response_format" /\ struct = "CreateImageRequest" -> "B64Json"

\* a builder after its setter calls: the fields set, and with what
Builder(struct, set, args, calls) ==
    [struct |-> struct, stage |-> "builder", set |-> set, args |-> args,
     calls |-> calls, value |-> <<>>]

WhisperRequestTypes == {"Transcription", "Translation"}
WhisperResponseFormats == {"Json", "Text", "VerboseJson"}

WhisperBuilders ==
    { Builder("WhisperRequest", S,
              [n \in S |-> CASE n = "request_type" -> rt
                             [] n = "response_format" -> rf
                             [] OTHER -> SampleArg("WhisperRequest", n)],
              <<>>) :
        S \in SUBSET Names(WhisperRequestFields),
        rt \in WhisperRequestTypes, rf \in WhisperResponseFormats }

MessageCalls ==
    { <<>>,
      << Call("new_system", "sys", ""), Call("new_user", "hi", "user1") >>,
      << Call("new_user", "hi", "") >>,
      << Call("new_system", "sys", "bot") >> }

ToolsArgs == { <<>>, << new_function("f", "d") >> }

ChatBuilders ==
    { Builder("ChatCompletionRequest", S,
              [n \in S |-> CASE n = "messages" -> Messages(calls)
                             [] n = "tools" -> t
                             [] OTHER -> SampleArg("ChatCompletionRequest", n)],
              IF "messages" \in S THEN calls ELSE <<>>) :
        S \in SUBSET Names(ChatCompletionRequestFields),
        calls \in MessageCalls, t \in ToolsArgs }

ImageBuilders ==
    { Builder("CreateImageRequest", S,
              [n \in S |-> SampleArg("CreateImageRequest", n)], <<>>) :
        S \in SUBSET Names(CreateImageRequestFields) }

\* XxxRequestBuilder::build: Err(UninitializedField) when a field without a
\* default was not set, else the struct
build(b) ==
    LET fields == FieldsOf(b.struct) IN
    IF \E n \in Names(fields) :
            FieldNamed(fields, n).fill = "required" /\ n \notin b.set
    THEN [b EXCEPT !.stage = "error"]
    ELSE [b EXCEPT !.stage = "built",
                   !.value =
                      [n \in Names(fields) |->
                         LET f == FieldNamed(fields, n) IN
                         IF n \in b.set
                         THEN IF f.fill = "strip_option"
                              THEN Some(b.args[n]) ELSE b.args[n]
                         ELSE IF f.fill = "strip_option"
                              THEN None ELSE DefaultOf(b.struct, n)]]

\* strum Display of the whisper enums
to_string(variant) ==
    CASE variant = "Whisper1" -> "whisper-1"
      [] variant = "Json" -> "json"
      [] variant = "Text" -> "text"
      [] variant = "Srt" -> "srt"
      [] variant = "VerboseJson" -> "verbose_json"
      [] variant = "Vtt" -> "vtt"

\* f32::to_string
f32_to_string(x) == IF x = 0 THEN "0" ELSE "1"

Form_text(name, value) == [name |-> name, value |-> value]
file_part(bytes) ==
    [name |-> "file", value |-> bytes, file_name |-> "file", mime |-> "audio/mp3"]

\* mutant: the language goes into the form for translations too
into_form_language_always(w) ==
    LET form0 == << file_part(w.file),
                    Form_text("model", to_string(w.model)),
                    Form_text("response_format", to_string(w.response_format)) >>
        form1 == IF w.language.some
                 THEN Append(form0, Form_text("language", w.language.v))
                 ELSE form0
        form2 == IF w.prompt.some
                 THEN Append(form1, Form_text("prompt", w.prompt.v))
                 ELSE form1
    IN  IF w.temperature.some
        THEN Append(form2, Form_text("temperature", f32_to_string(w.temperature.v)))
        ELSE form2

\* WhisperRequest::into_form
into_form(w) ==
    LET form0 == << file_part(w.file),
                    Form_text("model", to_string(w.model)),
                    Form_text("response_format", to_string(w.response_format)) >>
        form1 == IF w.request_type = "Transcription" /\ w.language.some
                 THEN Append(form0, Form_text("language", w.language.v))
                 ELSE form0
        form2 == IF w.prompt.some
                 THEN Append(form1, Form_text("prompt", w.prompt.v))
                 ELSE form1
    IN  IF w.temperature.some
        THEN Append(form2, Form_text("temperature", f32_to_string(w.temperature.v)))
        ELSE form2

\* #[serde(rename = ..)] and #[serde(rename_all = "snake_case")]
serde_rename(variant) ==
    CASE variant = "Gpt3Turbo" -> "gpt-3.5-turbo"
      [] variant = "Gpt4Turbo" -> "gpt-4-1106-preview"
      [] variant = "DallE3" -> "dall-e-3"
      [] variant = "None" -> "none"
      [] variant = "Auto" -> "auto"
      [] variant = "Function" -> "function"
      [] variant = "Json" -> "json"
      [] variant = "Text" -> "text"
      [] variant = "System" -> "system"
      [] variant = "User" -> "user"
      [] variant = "Standard" -> "standard"
      [] variant = "Hd" -> "hd"
      [] variant = "Url" -> "url"
      [] variant = "B64Json" -> "b64_json"
      [] variant = "Large" -> "1024x1024"
      [] variant = "LargeWide" -> "1792x1024"
      [] variant = "LargeTall" -> "1024x1792"
      [] variant = "Vivid" -> "vivid"
      [] variant = "Natural" -> "natural"

\* a message in JSON: the role tag, the content, the name unless None
MessageJson(m) ==
    [k \in {"role", "content"} \cup (IF m.name.some THEN {"name"} ELSE {}) |->
        CASE k = "role" -> serde_rename(m.role)
          [] k = "content" -> m.content
          [] k = "name" -> m.name.v]

ToolJson(t) ==
    [k \in {"type", "function"} |->
        IF k = "type" THEN serde_rename(t.typ) ELSE t.function]

\* skip_serializing_if
skipped(f, v) ==
    CASE f.skip = "Option::is_none" -> ~v.some
      [] f.skip = "Vec::is_empty" -> Len(v) = 0
      [] OTHER -> FALSE

JsonOf(f, v) ==
    LET x == IF f.fill = "strip_option" THEN v.v ELSE v IN
    CASE f.json = "plain" -> x
      [] f.json = "enum" -> serde_rename(x)
      [] f.json = "format_object" -> [k \in {"type"} |-> serde_rename(x.typ)]
      [] f.json = "messages" -> [i \in DOMAIN x |-> MessageJson(x[i])]
      [] f.json = "tools" -> [i \in DOMAIN x |-> ToolJson(x[i])]

\* serde_json of a request struct: the JSON object, key by key
to_value(struct, value) ==
    LET fields == FieldsOf(struct)
        emitted == {n \in Names(fields) : ~skipped(FieldNamed(fields, n), value[n])}
    IN  [n \in emitted |-> JsonOf(FieldNamed(fields, n), value[n])]

----------------------------------------------------------------------------
\* send_and_log

\* {:#?} of a String: quoted, with quote, backslash and newline escaped
EscapeChar(c) ==
    IF c = Q THEN <<BSL, Q>>
    ELSE IF c = BSL THEN <<BSL, BSL>>
    ELSE IF c = NL THEN <<BSL, "n">>
    ELSE <<c>>

RECURSIVE EscapeDebug(_)
EscapeDebug(s) ==
    IF s = <<>> THEN <<>> ELSE EscapeChar(Head(s)) \o EscapeDebug(Tail(s))

DebugFmt(s) == <<Q>> \o EscapeDebug(s) \o <<Q>>

API_FAILED == <<"A","P","I"," ","f","a","i","l","e","d",":"," ">>

ApiFailedMessage(text) == API_FAILED \o DebugFmt(text)

\* values of Result<Response>
Ok(res) ==
    [kind |-> "Ok", status |-> res.status, body |-> res.body, consumed |-> FALSE,
     message |-> <<>>, error |-> "none"]
\* mutant: the text is formatted with {} instead of {:#?}
ErrApiFailed_display(text) ==
    [kind |-> "ErrApiFailed", status |-> 0, body |-> <<>>, consumed |-> TRUE,
     message |-> API_FAILED \o text, error |-> "none"]

\* anyhow!("API failed: {:#?}", text): the message is all the error holds
ErrApiFailed(text) ==
    [kind |-> "ErrApiFailed", status |-> 0, body |-> <<>>, consumed |-> TRUE,
     message |-> ApiFailedMessage(text), error |-> "none"]
\* an error of send() or text() passed on by `?`
ErrSend(kind, e) ==
    [kind |-> kind, status |-> 0, body |-> <<>>, consumed |-> FALSE,
     message |-> <<>>, error |-> e]
NoResult ==
    [kind |-> "none", status |-> 0, body |-> <<>>, consumed |-> FALSE,
     message |-> <<>>, error |-> "none"]

\* mutant: every status that is not a success is an error
IsErrorStatus_not_success(status) == ~is_success(status)

IsErrorStatus(status) == is_client_error(status) \/ is_server_error(status)

\* mutant: only is_client_error is tested, a 5xx response is returned as Ok
Classify_client_errors_only(res, text_ok) ==
    IF res.kind = "error" THEN ErrSend("ErrReqwest", res.error)
    ELSE IF res.kind = "middleware_error" THEN ErrSend("ErrMiddleware", res.error)
    ELSE IF is_client_error(res.status)
         THEN IF text_ok THEN ErrApiFailed(res.body)
              ELSE ErrSend("ErrReqwest", "body")
    ELSE Ok(res)

\* send_and_log applied to what send() returned; text_ok: whether reading
\* the error body succeeds
Classify(res, text_ok) ==
    IF res.kind = "error" THEN ErrSend("ErrReqwest", res.error)
    ELSE IF res.kind = "middleware_error" THEN ErrSend("ErrMiddleware", res.error)
    ELSE IF IsErrorStatus(res.status)
         THEN IF text_ok THEN ErrApiFailed(res.body)
              ELSE ErrSend("ErrReqwest", "body")
    ELSE Ok(res)

\* what tracing::error! emits in send_and_log
Logged(res, text_ok) ==
    IF res.kind = "response" /\ IsErrorStatus(res.status) /\ text_ok
    THEN <<ApiFailedMessage(res.body)>> ELSE <<>>

----------------------------------------------------------------------------
\* The logical call

Init ==
    /\ max_retries \in 0..MaxRetriesBound
    /\ pc = "idle"
    /\ req = NoRequest
    /\ route = "none"
    /\ n_past_retries = 0
    /\ in_flight = 0
    /\ history = <<>>
    /\ mw_result = Nothing
    /\ spans = <<>>
    /\ error_log = <<>>
    /\ result = NoResult
    /\ token \in Tokens
    /\ timeout_wanted = 0
    /\ delays = <<>>
    /\ builder = NoBuilder
    /\ wire = NoWire
    /\ sent = <<>>
    /\ concurrent = NoCalls

\* LlmSdk::prepare_request: the request is materialised, the bearer token
\* and the timeout are attached; send() comes next
prepare_request(r) ==
    /\ pc = "idle"
    /\ req' = PreparedRequest(r, token)
    /\ pc' = "send"
    /\ UNCHANGED <<fixed, delays, sent, route, n_past_retries, in_flight, history,
                   mw_result, spans, error_log, result>>

\* send() enters the first middleware attached, TracingMiddleware, which
\* opens its span and calls the rest of the stack
TracingMiddleware_handle ==
    /\ pc = "send"
    /\ spans' = Append(spans, <<"open", "none">>)
    /\ pc' = "retry_mw"
    /\ UNCHANGED <<fixed, delays, sent, req, route, n_past_retries, in_flight, history,
                   mw_result, error_log, result>>

\* RetryMiddleware::handle: next.run(req) for a non-retryable content type,
\* self.inner.handle(req) otherwise
RetryMiddleware_handle ==
    /\ pc = "retry_mw"
    /\ route' = RouteOf(req.content_type)
    /\ IF route' = "direct"
       THEN /\ pc' = "in_flight"
            /\ in_flight' = in_flight + 1
       ELSE /\ pc' = "loop"
            /\ in_flight' = in_flight
    /\ sent' = IF route' = "direct" THEN Append(sent, req) ELSE sent
    /\ n_past_retries' = 0
    /\ UNCHANGED <<fixed, delays, req, history, mw_result, spans, error_log, result>>

\* mutant: a request that cannot be cloned is not given up, the loop waits
\* for it to become clonable
execute_with_retry_waits ==
    /\ pc = "loop"
    /\ IF try_clone(req)
       THEN /\ pc' = "in_flight"
            /\ in_flight' = in_flight + 1
       ELSE /\ pc' = "loop"
            /\ in_flight' = in_flight
    /\ sent' = IF try_clone(req) THEN Append(sent, duplicate_request(req)) ELSE sent
    /\ UNCHANGED <<fixed, delays, req, route, n_past_retries, history, spans,
                   error_log, result, mw_result>>

\* head of RetryTransientMiddleware's loop: the request is cloned and the
\* clone submitted; a request that cannot be cloned ends the call with a
\* middleware error
execute_with_retry ==
    /\ pc = "loop"
    /\ IF try_clone(req)
       THEN /\ pc' = "in_flight"
            /\ in_flight' = in_flight + 1
            /\ mw_result' = mw_result
       ELSE /\ pc' = "mw_return"
            /\ in_flight' = in_flight
            /\ mw_result' = MiddlewareError("not_clonable")
    /\ sent' = IF try_clone(req) THEN Append(sent, duplicate_request(req)) ELSE sent
    /\ UNCHANGED <<fixed, delays, req, route, n_past_retries, history, spans,
                   error_log, result>>

\* what TracingMiddleware writes on its span
OutcomeSummary(res) ==
    IF res.kind = "response" THEN <<"status", res.status>> ELSE <<"error", res.error>>

\* mutant: TracingMiddleware attached after RetryMiddleware, so that every
\* attempt passes through it and is recorded
Transport_execute_traced(outcome) ==
    /\ pc = "in_flight"
    /\ in_flight' = in_flight - 1
    /\ history' = Append(history, outcome)
    /\ mw_result' = outcome
    /\ spans' = Append(spans, OutcomeSummary(outcome))
    /\ pc' = IF route = "direct" THEN "mw_return" ELSE "evaluate"
    /\ UNCHANGED <<fixed, delays, sent, req, route, n_past_retries, error_log, result>>

\* mutant: the outcome of the first attempt is what the stack returns
Transport_execute_keeps_first(outcome) ==
    /\ pc = "in_flight"
    /\ in_flight' = in_flight - 1
    /\ history' = Append(history, outcome)
    /\ mw_result' = IF history = <<>> THEN outcome ELSE mw_result
    /\ pc' = IF route = "direct" THEN "mw_return" ELSE "evaluate"
    /\ UNCHANGED <<fixed, delays, sent, req, route, n_past_retries, spans, error_log, result>>

\* the transport completes the attempt in flight
Transport_execute(outcome) ==
    /\ pc = "in_flight"
    /\ in_flight' = in_flight - 1
    /\ history' = Append(history, outcome)
    /\ mw_result' = outcome
    /\ pc' = IF route = "direct" THEN "mw_return" ELSE "evaluate"
    /\ UNCHANGED <<fixed, delays, sent, req, route, n_past_retries, spans, error_log, result>>

\* mutant: the retry is submitted at once, without the sleep
retry_decision_no_sleep ==
    /\ pc = "evaluate"
    /\ IF Retryable(mw_result) = "Transient" /\ should_retry(n_past_retries, max_retries)
       THEN /\ pc' = "in_flight"
            /\ in_flight' = in_flight + 1
            /\ n_past_retries' = n_past_retries + 1
            /\ delays' = Append(delays, unjittered_wait_for(n_past_retries))
       ELSE /\ pc' = "mw_return"
            /\ in_flight' = in_flight
            /\ n_past_retries' = n_past_retries
            /\ delays' = delays
    /\ sent' = IF pc' = "in_flight" THEN Append(sent, duplicate_request(req)) ELSE sent
    /\ UNCHANGED <<fixed, req, route, history, mw_result,
                   spans, error_log, result>>

\* RetryTransientMiddleware after an attempt: a transient outcome is retried
\* while the policy allows it, anything else is returned
retry_decision ==
    /\ pc = "evaluate"
    /\ IF Retryable(mw_result) = "Transient" /\ should_retry(n_past_retries, max_retries)
       THEN /\ pc' = "backoff"
            /\ n_past_retries' = n_past_retries + 1
            /\ delays' = Append(delays, unjittered_wait_for(n_past_retries))
       ELSE /\ pc' = "mw_return"
            /\ n_past_retries' = n_past_retries
            /\ delays' = delays
    /\ UNCHANGED <<fixed, sent, req, route, in_flight, history, mw_result,
                   spans, error_log, result>>

\* tokio::time::sleep(duration) is over
backoff_elapsed ==
    /\ pc = "backoff"
    /\ pc' = "loop"
    /\ UNCHANGED <<fixed, delays, sent, req, route, n_past_retries, in_flight, history,
                   mw_result, spans, error_log, result>>

\* the stack returns through TracingMiddleware, which records the outcome
\* on its span and passes the result on unchanged
TracingMiddleware_record ==
    /\ pc = "mw_return"
    /\ spans' = [spans EXCEPT ![Len(spans)] = OutcomeSummary(mw_result)]
    /\ pc' = "classify"
    /\ UNCHANGED <<fixed, delays, sent, req, route, n_past_retries, in_flight, history,
                   mw_result, error_log, result>>

\* send_and_log on what send() returned
send_and_log(text_ok) ==
    /\ pc = "classify"
    /\ result' = Classify(mw_result, text_ok)
    /\ error_log' = error_log \o Logged(mw_result, text_ok)
    /\ pc' = "done"
    /\ UNCHANGED <<fixed, delays, sent, req, route, n_past_retries, in_flight, history,
                   mw_result, spans>>

Next ==
    \/ \E r \in Requests : prepare_request(r)
    \/ TracingMiddleware_handle
    \/ RetryMiddleware_handle
    \/ execute_with_retry
    \/ \E outcome \in Outcomes : Transport_execute(outcome)
    \/ retry_decision
    \/ backoff_elapsed
    \/ TracingMiddleware_record
    \/ \E text_ok \in BOOLEAN : send_and_log(text_ok)

Spec == Init /\ [][Next]_vars

\* The same calls, for callers that wish for a timeout of their own.
\* LlmSdk::new(base_url, token, max_retries) is all a caller can say.
TimeoutsWanted == {0, 10, 60}

PrepInit ==
    /\ max_retries \in 0..1
    /\ pc = "idle"
    /\ req = NoRequest
    /\ route = "none"
    /\ n_past_retries = 0
    /\ in_flight = 0
    /\ history = <<>>
    /\ mw_result = Nothing
    /\ spans = <<>>
    /\ error_log = <<>>
    /\ result = NoResult
    /\ token \in Tokens
    /\ timeout_wanted \in TimeoutsWanted
    /\ delays = <<>>
    /\ builder = NoBuilder
    /\ wire = NoWire
    /\ sent = <<>>
    /\ concurrent = NoCalls

PrepSpec == PrepInit /\ [][Next]_vars

\* Calls of an SDK built with a large retry budget against a provider that
\* keeps answering 503: the schedule of waits of ExponentialBackoff.
MaxBudget == 9

BackoffInit ==
    /\ max_retries \in 0..MaxBudget
    /\ pc = "idle"
    /\ req = NoRequest
    /\ route = "none"
    /\ n_past_retries = 0
    /\ in_flight = 0
    /\ history = <<>>
    /\ mw_result = Nothing
    /\ spans = <<>>
    /\ error_log = <<>>
    /\ result = NoResult
    /\ token \in Tokens
    /\ timeout_wanted = 0
    /\ delays = <<>>
    /\ builder = NoBuilder
    /\ wire = NoWire
    /\ sent = <<>>
    /\ concurrent = NoCalls

BackoffOutcomes == {Response(503, <<"o","k">>), Response(200, <<"o","k">>)}

BackoffNext ==
    \/ prepare_request(JsonRequest)
    \/ TracingMiddleware_handle
    \/ RetryMiddleware_handle
    \/ execute_with_retry
    \/ \E outcome \in BackoffOutcomes : Transport_execute(outcome)
    \/ retry_decision
    \/ backoff_elapsed
    \/ TracingMiddleware_record
    \/ \E text_ok \in BOOLEAN : send_and_log(text_ok)

BackoffSpec == BackoffInit /\ [][BackoffNext]_vars

\* Request values, from the builder to what goes on the wire
BuildInit ==
    /\ max_retries = 0
    /\ pc = "idle"
    /\ req = NoRequest
    /\ route = "none"
    /\ n_past_retries = 0
    /\ in_flight = 0
    /\ history = <<>>
    /\ mw_result = Nothing
    /\ spans = <<>>
    /\ error_log = <<>>
    /\ result = NoResult
    /\ token = <<>>
    /\ timeout_wanted = 0
    /\ delays = <<>>
    /\ \/ builder \in WhisperBuilders
       \/ builder \in ChatBuilders
       \/ builder \in ImageBuilders
    /\ wire = NoWire
    /\ sent = <<>>
    /\ concurrent = NoCalls

\* .build()
Builder_build ==
    /\ builder.stage = "builder"
    /\ builder' = build(builder)
    /\ UNCHANGED <<max_retries, pc, req, route, n_past_retries, in_flight,
                   history, mw_result, spans, error_log, result, token,
                   timeout_wanted, delays, wire, sent, concurrent>>

\* WhisperRequest::into_request: client.post(url).multipart(self.into_form())
WhisperRequest_into_request ==
    /\ builder.stage = "built"
    /\ builder.struct = "WhisperRequest"
    /\ wire = NoWire
    /\ wire' = [kind |-> "form", parts |-> into_form(builder.value)]
    /\ UNCHANGED <<max_retries, pc, req, route, n_past_retries, in_flight,
                   history, mw_result, spans, error_log, result, token,
                   timeout_wanted, delays, builder, sent, concurrent>>

\* into_request of the JSON requests: client.post(url).json(&self)
Json_into_request ==
    /\ builder.stage = "built"
    /\ builder.struct \in {"ChatCompletionRequest", "CreateImageRequest"}
    /\ wire = NoWire
    /\ wire' = [kind |-> "json", body |-> to_value(builder.struct, builder.value)]
    /\ UNCHANGED <<max_retries, pc, req, route, n_past_retries, in_flight,
                   history, mw_result, spans, error_log, result, token,
                   timeout_wanted, delays, builder, sent, concurrent>>

\* mutant: verbose_json is taken for JSON too
is_json_any_json(w) == w.response_format \in {"Json", "VerboseJson"}

\* WhisperRequest::is_json
is_json(w) == w.response_format = "Json"

\* bodies of a 2xx answer to a whisper request
TEXT_KEY == <<"{", Q, "t", "e", "x", "t", Q, ":", Q>>
WhisperBodies ==
    { TEXT_KEY \o <<"h", "i", Q, "}">>,
      <<"h", "i">>,
      TEXT_KEY \o <<"h", "i">>,
      <<"{", "}">> }

\* what the caller of whisper gets: the text, or the error of the decoding
WhisperResponse(t) == [NoResult EXCEPT !.kind = "WhisperResponse", !.body = t]

\* res.json::<WhisperResponse>(): an object with the one key text; the
\* bodies here hold no escape
json_WhisperResponse(body) ==
    LET n == Len(body)
        k == Len(TEXT_KEY)
    IN  IF /\ n >= k + 2
           /\ SubSeq(body, 1, k) = TEXT_KEY
           /\ SubSeq(body, n - 1, n) = <<Q, "}">>
           /\ \A i \in (k + 1)..(n - 2) : body[i] # Q
        THEN WhisperResponse(SubSeq(body, k + 1, n - 2))
        ELSE ErrSend("ErrReqwest", "decode")

\* LlmSdk::whisper after send_and_log gave a response: is_json was taken
\* from the request before into_request consumed it
LlmSdk_whisper(body) ==
    /\ wire.kind = "form"
    /\ result = NoResult
    /\ mw_result' = Response(200, body)
    /\ result' = IF is_json(builder.value)
                 THEN json_WhisperResponse(body)
                 ELSE WhisperResponse(body)
    /\ UNCHANGED <<max_retries, pc, req, route, n_past_retries, in_flight,
                   history, spans, error_log, token, timeout_wanted, delays,
                   builder, wire, sent, concurrent>>

BuildNext ==
    \/ Builder_build
    \/ WhisperRequest_into_request
    \/ Json_into_request
    \/ \E body \in WhisperBodies : LlmSdk_whisper(body)

BuildSpec == BuildInit /\ [][BuildNext]_vars

\* Calls whose Content-Type is one of the two types of the test, as the
\* test spells it, with a parameter, or in another letter case
CaseContentTypes ==
    {MULTIPART_FORM_DATA, MULTIPART_WITH_BOUNDARY, MULTIPART_OTHER_CASE,
     APPLICATION_OCTET_STREAM, OCTET_STREAM_WITH_PARAM, OCTET_STREAM_OTHER_CASE}

CaseRequests ==
    [method : {"POST"}, url : {"url"},
     content_type : {TextHeader(v) : v \in CaseContentTypes}, body : BodyKinds,
     authorization : {NoHeader}, timeout : {0}]

CaseInit ==
    /\ max_retries \in 0..2
    /\ pc = "idle"
    /\ req = NoRequest
    /\ route = "none"
    /\ n_past_retries = 0
    /\ in_flight = 0
    /\ history = <<>>
    /\ mw_result = Nothing
    /\ spans = <<>>
    /\ error_log = <<>>
    /\ result = NoResult
    /\ token = <<>>
    /\ timeout_wanted = 0
    /\ delays = <<>>
    /\ builder = NoBuilder
    /\ wire = NoWire
    /\ sent = <<>>
    /\ concurrent = NoCalls

CaseNext ==
    \/ \E r \in CaseRequests : prepare_request(r)
    \/ TracingMiddleware_handle
    \/ RetryMiddleware_handle
    \/ execute_with_retry
    \/ \E outcome \in Outcomes : Transport_execute(outcome)
    \/ retry_decision
    \/ backoff_elapsed
    \/ TracingMiddleware_record
    \/ \E text_ok \in BOOLEAN : send_and_log(text_ok)

CaseSpec == CaseInit /\ [][CaseNext]_vars

\* Calls answered with statuses at the edges of the classes of StatusCode
EdgeStatuses == {100, 199, 200, 299, 302, 399, 400, 499, 500, 599, 600}

EdgeOutcomes ==
    {Response(st, <<"o","k">>) : st \in EdgeStatuses} \cup {TransportError("timeout")}

EdgeInit ==
    /\ max_retries \in 0..1
    /\ pc = "idle"
    /\ req = NoRequest
    /\ route = "none"
    /\ n_past_retries = 0
    /\ in_flight = 0
    /\ history = <<>>
    /\ mw_result = Nothing
    /\ spans = <<>>
    /\ error_log = <<>>
    /\ result = NoResult
    /\ token \in Tokens
    /\ timeout_wanted = 0
    /\ delays = <<>>
    /\ builder = NoBuilder
    /\ wire = NoWire
    /\ sent = <<>>
    /\ concurrent = NoCalls

EdgeNext ==
    \/ \E r \in {JsonRequest, MultipartRequest} : prepare_request(r)
    \/ TracingMiddleware_handle
    \/ RetryMiddleware_handle
    \/ execute_with_retry
    \/ \E outcome \in EdgeOutcomes : Transport_execute(outcome)
    \/ retry_decision
    \/ backoff_elapsed
    \/ TracingMiddleware_record
    \/ \E text_ok \in BOOLEAN : send_and_log(text_ok)

EdgeSpec == EdgeInit /\ [][EdgeNext]_vars

-----------------------------------------------------------------------------
\* Several calls on one LlmSdk. Each call is a future of its own: its
\* request, its span and the locals of execute_with_retry (the retry
\* counter among them) belong to it; the calls share the client, whose
\* retry policy is immutable, the base URL and the token.

MaxConcRetries == 1

CallIds == {1, 2}

\* what the provider answers to a call, attempt by attempt
ScriptOutcomes ==
    {Response(503, <<"o","k">>), Response(404, <<"{",Q,"e",Q,"}">>),
     Response(200, <<"o","k">>)}
Scripts(len) == [1..len -> ScriptOutcomes]

\* a call about to enter send(): r is what into_request built, tap tells
\* whether TracingMiddleware is in the client's stack
NewCall(r, tok, tap, script, text_ok) ==
    [req |-> PreparedRequest(r, tok), tap |-> tap, script |-> script,
     text_ok |-> text_ok, pc |-> "send", route |-> "none",
     n_past_retries |-> 0, in_flight |-> 0, history |-> <<>>,
     mw_result |-> Nothing, spans |-> <<>>, error_log |-> <<>>,
     result |-> NoResult, delays |-> <<>>]

\* the steps of one call, as the steps above, on the call's own record
Call_TracingMiddleware_handle(c) ==
    [c EXCEPT !.pc = "retry_mw",
              !.spans = IF c.tap THEN Append(c.spans, <<"open", "none">>) ELSE c.spans]

Call_RetryMiddleware_handle(c) ==
    LET rt == RouteOf(c.req.content_type) IN
    [c EXCEPT !.route = rt,
              !.pc = IF rt = "direct" THEN "in_flight" ELSE "loop",
              !.in_flight = IF rt = "direct" THEN c.in_flight + 1 ELSE c.in_flight,
              !.n_past_retries = 0]

Call_execute_with_retry(c) ==
    IF try_clone(c.req)
    THEN [c EXCEPT !.pc = "in_flight", !.in_flight = c.in_flight + 1]
    ELSE [c EXCEPT !.pc = "mw_return", !.mw_result = MiddlewareError("not_clonable")]

Call_Transport_execute(c) ==
    LET outcome == c.script[Len(c.history) + 1] IN
    [c EXCEPT !.in_flight = c.in_flight - 1,
              !.history = Append(c.history, outcome),
              !.mw_result = outcome,
              !.pc = IF c.route = "direct" THEN "mw_return" ELSE "evaluate"]

Call_retry_decision(c, n, max) ==
    IF Retryable(c.mw_result) = "Transient" /\ should_retry(n, max)
    THEN [c EXCEPT !.pc = "backoff",
                   !.n_past_retries = n + 1,
                   !.delays = Append(c.delays, unjittered_wait_for(n))]
    ELSE [c EXCEPT !.pc = "mw_return"]

Call_backoff_elapsed(c) == [c EXCEPT !.pc = "loop"]

\* mutant: a span that cannot be written fails the call
Call_TracingMiddleware_record_failing(c) ==
    [c EXCEPT !.pc = "classify",
              !.mw_result = IF c.tap /\ c.mw_result.kind # "response"
                            THEN MiddlewareError("span") ELSE c.mw_result,
              !.spans = IF c.tap
                        THEN [c.spans EXCEPT ![Len(c.spans)] = OutcomeSummary(c.mw_result)]
                        ELSE c.spans]

Call_TracingMiddleware_record(c) ==
    [c EXCEPT !.pc = "classify",
              !.spans = IF c.tap
                        THEN [c.spans EXCEPT ![Len(c.spans)] = OutcomeSummary(c.mw_result)]
                        ELSE c.spans]

Call_send_and_log(c) ==
    [c EXCEPT !.pc = "done",
              !.result = Classify(c.mw_result, c.text_ok),
              !.error_log = c.error_log \o Logged(c.mw_result, c.text_ok)]

\* the next step of a call that is not over
Call_step(c, max) ==
    CASE c.pc = "send" -> Call_TracingMiddleware_handle(c)
      [] c.pc = "retry_mw" -> Call_RetryMiddleware_handle(c)
      [] c.pc = "loop" -> Call_execute_with_retry(c)
      [] c.pc = "in_flight" -> Call_Transport_execute(c)
      [] c.pc = "evaluate" -> Call_retry_decision(c, c.n_past_retries, max)
      [] c.pc = "backoff" -> Call_backoff_elapsed(c)
      [] c.pc = "mw_return" -> Call_TracingMiddleware_record(c)
      [] c.pc = "classify" -> Call_send_and_log(c)

\* a call run to its end with no other call beside it
RECURSIVE RunAlone(_, _)
RunAlone(c, max) == IF c.pc = "done" THEN c ELSE RunAlone(Call_step(c, max), max)

\* the variables of the call followed step by step, and the SDK's
single == <<max_retries, pc, req, route, n_past_retries, in_flight, history,
            mw_result, spans, error_log, result, token, timeout_wanted,
            delays, builder, wire, sent>>

ConcInit ==
    /\ max_retries \in 0..MaxConcRetries
    /\ pc = "idle"
    /\ req = NoRequest
    /\ route = "none"
    /\ n_past_retries = 0
    /\ in_flight = 0
    /\ history = <<>>
    /\ mw_result = Nothing
    /\ spans = <<>>
    /\ error_log = <<>>
    /\ result = NoResult
    /\ token = <<"s","k">>
    /\ timeout_wanted = 0
    /\ delays = <<>>
    /\ builder = NoBuilder
    /\ wire = NoWire
    /\ sent = <<>>
    /\ concurrent \in
          [CallIds -> {NewCall(r, token, TRUE, script, TRUE) :
                          r \in {JsonRequest, MultipartRequest},
                          script \in Scripts(MaxConcRetries + 1)}]

Conc_TracingMiddleware_handle(i) ==
    /\ concurrent[i].pc = "send"
    /\ concurrent' = [concurrent EXCEPT ![i] = Call_TracingMiddleware_handle(concurrent[i])]
    /\ UNCHANGED single

Conc_RetryMiddleware_handle(i) ==
    /\ concurrent[i].pc = "retry_mw"
    /\ concurrent' = [concurrent EXCEPT ![i] = Call_RetryMiddleware_handle(concurrent[i])]
    /\ UNCHANGED single

Conc_execute_with_retry(i) ==
    /\ concurrent[i].pc = "loop"
    /\ concurrent' = [concurrent EXCEPT ![i] = Call_execute_with_retry(concurrent[i])]
    /\ UNCHANGED single

Conc_Transport_execute(i) ==
    /\ concurrent[i].pc = "in_flight"
    /\ concurrent' = [concurrent EXCEPT ![i] = Call_Transport_execute(concurrent[i])]
    /\ UNCHANGED single

\* mutant: the retry counter is kept by the client that the calls share
Conc_retry_decision_shared(i) ==
    /\ concurrent[i].pc = "evaluate"
    /\ concurrent' = [concurrent EXCEPT
                        ![i] = Call_retry_decision(concurrent[i], n_past_retries, max_retries)]
    /\ n_past_retries' = IF concurrent'[i].pc = "backoff"
                         THEN n_past_retries + 1 ELSE n_past_retries
    /\ UNCHANGED <<max_retries, pc, req, route, in_flight, history,
                   mw_result, spans, error_log, result, token, timeout_wanted,
                   delays, builder, wire, sent>>

Conc_retry_decision(i) ==
    /\ concurrent[i].pc = "evaluate"
    /\ concurrent' = [concurrent EXCEPT ![i] = Call_retry_decision(concurrent[i], concurrent[i].n_past_retries, max_retries)]
    /\ UNCHANGED single

Conc_backoff_elapsed(i) ==
    /\ concurrent[i].pc = "backoff"
    /\ concurrent' = [concurrent EXCEPT ![i] = Call_backoff_elapsed(concurrent[i])]
    /\ UNCHANGED single

Conc_TracingMiddleware_record(i) ==
    /\ concurrent[i].pc = "mw_return"
    /\ concurrent' = [concurrent EXCEPT ![i] = Call_TracingMiddleware_record(concurrent[i])]
    /\ UNCHANGED single

Conc_send_and_log(i) ==
    /\ concurrent[i].pc = "classify"
    /\ concurrent' = [concurrent EXCEPT ![i] = Call_send_and_log(concurrent[i])]
    /\ UNCHANGED single

ConcNext ==
    \E i \in CallIds :
        \/ Conc_TracingMiddleware_handle(i)
        \/ Conc_RetryMiddleware_handle(i)
        \/ Conc_execute_with_retry(i)
        \/ Conc_Transport_execute(i)
        \/ Conc_retry_decision(i)
        \/ Conc_backoff_elapsed(i)
        \/ Conc_TracingMiddleware_record(i)
        \/ Conc_send_and_log(i)

ConcSpec == ConcInit /\ [][ConcNext]_vars

\* The same call twice, given the same answers: call 1 on the client that
\* LlmSdk::new builds, call 2 on a client built without TracingMiddleware.
TapScriptOutcomes ==
    ScriptOutcomes \cup {TransportError("timeout"), TransportError("redirect")}

TapInit ==
    /\ max_retries \in 0..MaxConcRetries
    /\ pc = "idle"
    /\ req = NoRequest
    /\ route = "none"
    /\ n_past_retries = 0
    /\ in_flight = 0
    /\ history = <<>>
    /\ mw_result = Nothing
    /\ spans = <<>>
    /\ error_log = <<>>
    /\ result = NoResult
    /\ token = <<"s","k">>
    /\ timeout_wanted = 0
    /\ delays = <<>>
    /\ builder = NoBuilder
    /\ wire = NoWire
    /\ sent = <<>>
    /\ \E r \in Requests, text_ok \in BOOLEAN,
          script \in [1..(MaxConcRetries + 1) -> TapScriptOutcomes] :
            concurrent = [i \in CallIds |->
                            NewCall(r, token, i = 1, script, text_ok)]

TapSpec == TapInit /\ [][ConcNext]_vars

\* A call is one future that its caller awaits: it is polled until it is
\* ready, every exchange with the transport ends (each attempt carries the
\* timeout) and every sleep ends. So a step that can be taken is taken.
\* (The token only decides a header of the request, see prepare_request;
\* the fair behaviours are explored for an SDK that has one.)
FairInit == Init /\ token # <<>>

FairSpec == FairInit /\ [][Next]_vars /\ WF_vars(Next)

----------------------------------------------------------------------------
\* Vocabulary of the properties

\* attempts submitted to the transport so far
Attempts == Len(history) + in_flight

Done == pc = "done"

IsJson == req.content_type = TextHeader(APPLICATION_JSON)

IsMultipart ==
    /\ req.content_type.present
    /\ req.content_type.readable
    /\ Contains(req.content_type.value, MULTIPART_FORM_DATA)

TypeOK ==
    /\ max_retries \in 0..MaxRetriesBound
    /\ n_past_retries \in 0..max_retries
    /\ in_flight \in 0..1

\* the retry loop is over and its result is on the way to the caller
AfterLoop == pc \in {"mw_return", "classify", "done"}

LastOutcome == history[Len(history)]

IsTransientHttp(o) ==
    o.kind = "response"
        /\ (is_server_error(o.status) \/ o.status \in {REQUEST_TIMEOUT, TOO_MANY_REQUESTS})

IsPermanentHttp(o) ==
    o.kind = "response" /\ is_client_error(o.status)
        /\ o.status \notin {REQUEST_TIMEOUT, TOO_MANY_REQUESTS}

IsTransientTransport(o) == o.kind = "error" /\ o.error \in {"connect", "timeout"}

IsSuccessHttp(o) == o.kind = "response" /\ is_success(o.status)

\* attempt i is the last one: nothing is in flight and no retry is under way
EndedAt(i) == i = Len(history) /\ in_flight = 0 /\ pc \in {"evaluate", "mw_return", "classify", "done"}

\* reading back a debug-quoted string
RECURSIVE Unescape(_)
Unescape(s) ==
    IF s = <<>> THEN <<>>
    ELSE IF Head(s) = BSL /\ Len(s) >= 2
         THEN <<(IF s[2] = "n" THEN NL ELSE s[2])>> \o Unescape(Tail(Tail(s)))
    ELSE <<Head(s)>> \o Unescape(Tail(s))

\* msg is "API failed: " followed by text in double quotes, escaped
IsApiFailedOf(msg, text) ==
    /\ Len(msg) >= Len(API_FAILED) + 2
    /\ SubSeq(msg, 1, Len(API_FAILED)) = API_FAILED
    /\ msg[Len(API_FAILED) + 1] = Q
    /\ msg[Len(msg)] = Q
    /\ Unescape(SubSeq(msg, Len(API_FAILED) + 2, Len(msg) - 1)) = text

NeedsEscape(text) == \E i \in 1..Len(text) : text[i] \in {Q, BSL, NL}

\* the error send_and_log builds from an error response whose body was read
IsApiFailure(res, body) ==
    /\ res.kind = "ErrApiFailed"
    /\ IsApiFailedOf(res.message, body)
    /\ (~NeedsEscape(body) => Contains(res.message, body))

\* the error of a failed read of the response body, passed on by `?`
IsBodyReadError(res) == res.kind = "ErrReqwest" /\ res.error = "body"

----------------------------------------------------------------------------
\* C1: a request whose Content-Type contains multipart/form-data, with or
\* without a boundary parameter, is submitted to the transport at most once
\* at any time and exactly once when the call has ended, for every
\* max_retries and every outcome of that attempt.
C1_MultipartSingleAttempt ==
    IsMultipart =>
        /\ Attempts <= 1
        /\ n_past_retries = 0
        /\ (AfterLoop => Len(history) = 1)

C1_Witness ==
    /\ Done
    /\ req.content_type = TextHeader(MULTIPART_WITH_BOUNDARY)
    /\ req.body = "bytes"
    /\ max_retries = 3
    /\ history = <<Response(503, <<"o","k">>)>>

\* C2: for a JSON request whose attempts (at least one) all ended in a
\* transient HTTP failure (5xx, 408, 429), the loop has not given up while
\* n_past_retries is below max_retries, and it gives up when they are equal:
\* never more than max_retries + 1 attempts, and once the loop is over
\* exactly max_retries retries were made.
AllTransientHttp == \A i \in 1..Len(history) : IsTransientHttp(history[i])

C2_RetryUntilBudget ==
    (IsJson /\ Len(history) >= 1 /\ AllTransientHttp) =>
        /\ Attempts <= max_retries + 1
        /\ (pc \in {"evaluate", "mw_return", "classify", "done"}
                => Len(history) = n_past_retries + 1)
        /\ (AfterLoop => n_past_retries = max_retries)

C2_Witness ==
    /\ Done
    /\ IsJson
    /\ max_retries = 2
    /\ Len(history) = 3
    /\ AllTransientHttp
    /\ history[1].status = 408
    /\ history[2].status = 429
    /\ history[3].status = 503

C4_SuccessEndsCall ==
    /\ \A i \in 1..Len(history) : IsSuccessHttp(history[i]) => EndedAt(i)
    /\ (Done /\ Len(history) >= 1 /\ IsSuccessHttp(LastOutcome)) =>
            /\ result.kind = "Ok"
            /\ result.status = LastOutcome.status
            /\ result.body = LastOutcome.body
            /\ ~result.consumed
            /\ error_log = <<>>

C4_Witness ==
    /\ Done
    /\ IsJson
    /\ max_retries = 3
    /\ Len(history) = 2
    /\ IsTransientHttp(history[1])
    /\ IsSuccessHttp(history[2])
    /\ result.kind = "Ok"

\* C5: max_retries = 3, JSON request, answers 503, 503, 200: the call does
\* not end before the third attempt, ends with it, and the caller receives
\* Ok with the third attempt's body.
Is503(o) == o.kind = "response" /\ o.status = 503
Is200(o) == o.kind = "response" /\ o.status = 200

C5_TwoFailuresThenSuccess ==
    (max_retries = 3 /\ IsJson) =>
        /\ (Len(history) \in 1..2 /\ \A i \in 1..Len(history) : Is503(history[i]))
                => ~AfterLoop
        /\ (Len(history) >= 3 /\ Is503(history[1]) /\ Is503(history[2])
                /\ Is200(history[3])) =>
                /\ Attempts = 3
                /\ (Done => /\ result.kind = "Ok"
                            /\ result.status = 200
                            /\ result.body = history[3].body
                            /\ error_log = <<>>)

C5_Witness ==
    /\ Done
    /\ max_retries = 3
    /\ IsJson
    /\ history = <<Response(503, <<"{",Q,"e",Q,"}">>),
                   Response(503, <<"{",Q,"e",Q,"}">>),
                   Response(200, <<"o","k">>)>>
    /\ result.kind = "Ok"

\* C6 as claimed: the failure returned for a final response with a 4xx or
\* 5xx status holds both the HTTP status code and the raw body text (read
\* in the claim's favour: whenever the body could be read at all).
FinalErrorResponse ==
    Done /\ mw_result.kind = "response" /\ IsErrorStatus(mw_result.status)

C8_TransportErrorRetried ==
    (route = "inner" /\ Len(history) >= 1 /\ IsTransientTransport(LastOutcome)) =>
        /\ (AfterLoop => n_past_retries = max_retries /\ Len(history) = max_retries + 1)
        /\ (Done => result = ErrSend("ErrReqwest", LastOutcome.error))

C8_Witness ==
    /\ Done
    /\ IsJson
    /\ max_retries = 1
    /\ Len(history) = 2
    /\ history[1] = TransportError("connect")
    /\ history[2].kind = "response"
    /\ history[2].status = 200
    /\ result.kind = "Ok"

\* C9 as claimed: when the budget is exhausted on a transient failure (5xx,
\* 408, 429 or transport error) the caller receives a failure of the shape
\* of a permanent failure, holding status and body.
ExhaustedOnTransient ==
    /\ Done
    /\ route = "inner"
    /\ Len(history) >= 1
    /\ n_past_retries = max_retries
    /\ (IsTransientHttp(LastOutcome) \/ IsTransientTransport(LastOutcome))

C10_AttemptsWithinBudget ==
    /\ Attempts <= 1 + max_retries
    /\ n_past_retries <= max_retries
    /\ in_flight <= 1

C10_Witness ==
    /\ Done
    /\ max_retries = 2
    /\ Attempts = 3
    /\ Retryable(LastOutcome) = "Transient"

----------------------------------------------------------------------------
\* C11: under FairSpec every call that was prepared ends, and when it has
\* ended the caller holds one result, written once by send_and_log: a
\* success, or a failure; a failure returned while retries remain is not a
\* transient one (it is permanent), a transient one is returned only when
\* the retries are used up or the request is not retried at all.
IsFailure(res) == res.kind \in {"ErrApiFailed", "ErrReqwest", "ErrMiddleware"}

TransientExhausted ==
    /\ IsFailure(result)
    /\ Len(history) >= 1
    /\ Retryable(LastOutcome) = "Transient"
    /\ (route = "inner" => n_past_retries = max_retries)

PermanentFailure ==
    /\ IsFailure(result)
    /\ (Len(history) >= 1 => Retryable(LastOutcome) # "Transient")

TerminalResult ==
    /\ result.kind \in {"Ok", "ErrApiFailed", "ErrReqwest", "ErrMiddleware"}
    /\ (result.kind = "Ok") # (TransientExhausted \/ PermanentFailure)
    /\ ~(TransientExhausted /\ PermanentFailure)
    /\ (result.kind = "Ok" =>
            Len(history) >= 1 /\ Retryable(LastOutcome) # "Transient")

C11_CallEnds ==
    /\ (pc = "send") ~> Done
    /\ [](Done => TerminalResult)
    /\ [](~Done => result = NoResult)
    /\ [][result' # result => pc = "classify" /\ pc' = "done"]_vars

C11_Witness ==
    /\ Done
    /\ TransientExhausted
    /\ route = "inner"
    /\ max_retries = 2
    /\ Len(history) = 3

C13_BearerIffToken ==
    (pc # "idle") =>
        /\ (token # <<>>) <=> req.authorization.present
        /\ (token # <<>>) =>
                req.authorization = TextHeader(<<"B","e","a","r","e","r"," ">> \o token)
        /\ (token = <<>>) => req.authorization = NoHeader

C13_Witness ==
    /\ Done
    /\ token = <<"s","k">>
    /\ req.authorization.value = <<"B","e","a","r","e","r"," ","s","k">>
    /\ Len(history) = 2

PartNames(parts) == {parts[i].name : i \in DOMAIN parts}

\* C16: the form of a whisper request always has the parts file, model and
\* response_format; it has language exactly when a language was set and the
\* request is a Transcription; prompt exactly when a prompt was set;
\* temperature exactly when a temperature was set; it has no other part and
\* no part twice.
C16_WhisperFormParts ==
    (wire.kind = "form") =>
        LET names == PartNames(wire.parts) IN
        /\ {"file", "model", "response_format"} \subseteq names
        /\ ("language" \in names) <=>
                ("language" \in builder.set
                    /\ builder.args["request_type"] = "Transcription")
        /\ ("prompt" \in names) <=> ("prompt" \in builder.set)
        /\ ("temperature" \in names) <=> ("temperature" \in builder.set)
        /\ names \subseteq {"file", "model", "response_format",
                            "language", "prompt", "temperature"}
        /\ Cardinality(names) = Len(wire.parts)

C16_Witness ==
    /\ wire.kind = "form"
    /\ builder.args["request_type"] = "Translation"
    /\ {"language", "prompt"} \subseteq builder.set
    /\ "temperature" \notin builder.set
    /\ PartNames(wire.parts) = {"file", "model", "response_format", "prompt"}

\* the fields of the JSON requests that a caller may leave unset
ChatOptionalFields ==
    {"frequency_penalty", "max_tokens", "n", "presence_penalty",
     "response_format", "seed", "stop", "stream", "temperature", "top_p",
     "tool_choice", "user"}
ImageOptionalFields ==
    {"n", "quality", "response_format", "size", "style", "user"}

IsOctetStream == req.content_type = TextHeader(APPLICATION_OCTET_STREAM)

IsUnknownContentType ==
    pc # "idle" /\ ~(req.content_type.present /\ req.content_type.readable)

\* C19: a request whose Content-Type is absent, or present but not readable
\* as text, goes to the retry policy as a JSON request does; when its
\* attempts (at least one) all ended in a transient failure, HTTP or
\* transport, it is retried while n_past_retries is below max_retries and
\* given up when they are equal.
C19_UnknownContentTypeRetried ==
    IsUnknownContentType =>
        /\ route \in {"none", "inner"}
        /\ (pc \notin {"send", "retry_mw"} =>
                route = RouteOf(TextHeader(APPLICATION_JSON)))
        /\ (Len(history) >= 1
              /\ \A i \in 1..Len(history) :
                    IsTransientHttp(history[i]) \/ IsTransientTransport(history[i]))
            =>
                /\ Attempts <= max_retries + 1
                /\ (pc \in {"evaluate", "mw_return", "classify", "done"}
                        => Len(history) = n_past_retries + 1)
                /\ (AfterLoop => n_past_retries = max_retries)

C19_Witness ==
    /\ Done
    /\ req.content_type = OpaqueHeader
    /\ max_retries = 2
    /\ Len(history) = 3
    /\ history[1].kind = "error"
    /\ history[3] = Response(503, <<"o","k">>)

\* what send_and_log returns for a last attempt that ended in `last`
ResultOfLast(res, last) ==
    IF last.kind = "response"
    THEN IF is_client_error(last.status) \/ is_server_error(last.status)
         THEN IsApiFailure(res, last.body) \/ IsBodyReadError(res)
         ELSE res.kind = "Ok" /\ res.status = last.status /\ res.body = last.body
    ELSE res.kind = "ErrReqwest" /\ res.error = last.error

\* C20: the result is made once, when the call ends, from the outcome of
\* the last attempt alone: it holds that outcome's status and body, or the
\* error made of that outcome's body or transport error, and the only
\* line logged is made of that body; as long as attempts go on the caller
\* has no result, and after the result no attempt is made.
C20_ResultFromLastAttempt ==
    /\ []((Done /\ Len(history) >= 1) =>
            /\ ResultOfLast(result, LastOutcome)
            /\ Len(error_log) <= 1
            /\ \A i \in 1..Len(error_log) :
                    IsApiFailedOf(error_log[i], LastOutcome.body))
    /\ [](result # NoResult => Done)
    /\ [][result' # result =>
            in_flight = 0 /\ history' = history /\ pc' = "done"]_vars
    /\ [][Done => history' = history /\ result' = result]_vars

C20_Witness ==
    /\ Done
    /\ Len(history) = 3
    /\ history[1] = Response(503, <<"{", Q, "e", Q, "}">>)
    /\ history[2].kind = "error"
    /\ history[3] = Response(404, <<"o","k">>)
    /\ IsApiFailure(result, <<"o","k">>)
    /\ ~Contains(result.message, <<"{">>)
    /\ error_log = <<result.message>>

\* C21: at no time are two attempts of the call in flight; an attempt is
\* submitted only when none is in flight; an attempt after the first is
\* submitted only from the head of the retry loop, which after an attempt
\* is reached only from the sleep, one wait having been computed for each
\* attempt that ended; and while the call sleeps nothing is submitted.
C21_AttemptsStrictlyOrdered ==
    /\ [](in_flight \in {0, 1})
    /\ [](in_flight = 1 <=> pc = "in_flight")
    /\ [][in_flight' > in_flight =>
            /\ in_flight = 0
            /\ Len(history) >= 1 =>
                    pc = "loop" /\ Len(delays) = Len(history)]_vars
    /\ [][(pc' = "loop" /\ pc # "loop" /\ Len(history) >= 1) =>
            pc = "backoff"]_vars
    /\ [][pc = "backoff" => in_flight' = 0 /\ history' = history]_vars
    /\ [][Len(history') > Len(history) =>
            in_flight = 1 /\ in_flight' = 0 /\ Len(history') = Len(history) + 1]_vars

C21_Witness ==
    /\ in_flight = 1
    /\ Len(history) = 2
    /\ Len(delays) = 2
    /\ n_past_retries = 2

\* a call as it was when it entered send()
Fresh(c) ==
    [c EXCEPT !.pc = "send", !.route = "none", !.n_past_retries = 0,
              !.in_flight = 0, !.history = <<>>, !.mw_result = Nothing,
              !.spans = <<>>, !.error_log = <<>>, !.result = NoResult,
              !.delays = <<>>]

\* the states a call goes through when no other call runs beside it
RECURSIVE AloneStates(_, _)
AloneStates(c, max) ==
    {c} \cup (IF c.pc = "done" THEN {} ELSE AloneStates(Call_step(c, max), max))

WithoutTap(c) ==
    [req |-> c.req, script |-> c.script, text_ok |-> c.text_ok, pc |-> c.pc,
     route |-> c.route, n_past_retries |-> c.n_past_retries,
     in_flight |-> c.in_flight, history |-> c.history,
     mw_result |-> c.mw_result, error_log |-> c.error_log,
     result |-> c.result, delays |-> c.delays]

FormatAsBuilt ==
    IF "response_format" \in builder.set
    THEN builder.args["response_format"] ELSE "Json"

\* C24: when whisper has its result for a 2xx answer, and the request was
\* built with the format Json, the result is the text member of the body
\* read as JSON, or the error of the decoding; with any other format,
\* verbose_json among them, the result's text is the body as it came. The
\* format is that of the request as it was built.
C24_WhisperDecodesByFormat ==
    (wire.kind = "form" /\ result # NoResult) =>
        LET body == mw_result.body IN
        IF FormatAsBuilt = "Json"
        THEN \/ /\ result.kind = "WhisperResponse"
                /\ body = <<"{", Q, "t", "e", "x", "t", Q, ":", Q>>
                            \o result.body \o <<Q, "}">>
             \/ /\ result.kind = "ErrReqwest"
                /\ result.error = "decode"
                /\ \/ Len(body) < 11
                   \/ SubSeq(body, 1, 9) # <<"{", Q, "t", "e", "x", "t", Q, ":", Q>>
                   \/ SubSeq(body, Len(body) - 1, Len(body)) # <<Q, "}">>
        ELSE result.kind = "WhisperResponse" /\ result.body = body

C24_Witness ==
    /\ wire.kind = "form"
    /\ FormatAsBuilt = "VerboseJson"
    /\ mw_result.body = <<"{", Q, "t", "e", "x", "t", Q, ":", Q, "h", "i", Q, "}">>
    /\ result.kind = "WhisperResponse"
    /\ result.body = mw_result.body

\* C25: when the call has ended on a response, send_and_log returned an
\* error exactly when the status of that response is from 400 to 599; the
\* error is the API failure made of the body, or the error of reading the
\* body; for every other status, 1xx, 3xx and 600 among them, it returned
\* that response as Ok.
C25_ErrorIffClientOrServerError ==
    (Done /\ Len(history) >= 1 /\ LastOutcome.kind = "response") =>
        LET st == LastOutcome.status IN
        /\ (result.kind # "Ok") <=> (st >= 400 /\ st <= 599)
        /\ (result.kind = "Ok") =>
                result.status = st /\ result.body = LastOutcome.body
        /\ (result.kind # "Ok") =>
                IsApiFailure(result, LastOutcome.body) \/ IsBodyReadError(result)

C25_Witness ==
    /\ Done
    /\ Len(history) = 2
    /\ history[1].status = 599
    /\ history[2].status = 100
    /\ result.kind = "Ok"
    /\ result.status = 100

\* C26: the prepared request is written once, before the first attempt,
\* and never after; one request is submitted for each attempt, and each of
\* them, the first and every retry, has the method, the URL, the
\* Content-Type and Authorization headers, the timeout and the body of the
\* prepared request: the bearer header when there is a token and the
\* timeout of 30 seconds are on every attempt.
C26_SameRequestEveryAttempt ==
    /\ [](pc = "idle" => sent = <<>>)
    /\ [](Len(sent) = Attempts)
    /\ [](\A k \in 1..Len(sent) :
            /\ sent[k].method = req.method
            /\ sent[k].url = req.url
            /\ sent[k].content_type = req.content_type
            /\ sent[k].authorization = req.authorization
            /\ sent[k].timeout = req.timeout
            /\ sent[k].body = req.body
            /\ sent[k].timeout = 30
            /\ sent[k].authorization.present <=> token # <<>>)
    /\ [][pc # "idle" => req' = req]_vars
    /\ [][Len(sent') > Len(sent) =>
            sent' = Append(sent, sent'[Len(sent')]) /\ in_flight' = in_flight + 1]_vars

C26_Witness ==
    /\ Done
    /\ token = <<"s","k">>
    /\ Len(sent) = 3
    /\ sent[1] = sent[3]
    /\ sent[3].authorization = TextHeader(<<"B","e","a","r","e","r"," ","s","k">>)
    /\ sent[3].timeout = 30
    /\ sent[3].method = "POST"

\* application/octet-stream with a parameter, or either type in another
\* letter case
IsNearMiss ==
    req.content_type \in
        {TextHeader(OCTET_STREAM_WITH_PARAM), TextHeader(OCTET_STREAM_OTHER_CASE),
         TextHeader(MULTIPART_OTHER_CASE)}

IsExactHit ==
    req.content_type \in
        {TextHeader(MULTIPART_FORM_DATA), TextHeader(MULTIPART_WITH_BOUNDARY),
         TextHeader(APPLICATION_OCTET_STREAM)}

Routed == pc \notin {"idle", "send", "retry_mw"}

\* C27: multipart/form-data anywhere in the value, and a value that is
\* application/octet-stream to the letter, go straight to the next handler;
\* application/octet-stream followed by a parameter, and either type in
\* another letter case, go to the retry policy, and when their attempts (at
\* least one) all ended in a transient failure they are retried while
\* n_past_retries is below max_retries and given up when they are equal.
C27_CaseSensitiveMatch ==
    /\ (Routed /\ IsExactHit) => route = "direct" /\ Attempts <= 1
    /\ (Routed /\ IsNearMiss) => route = "inner"
    /\ (IsNearMiss /\ Len(history) >= 1
          /\ \A i \in 1..Len(history) :
                IsTransientHttp(history[i]) \/ IsTransientTransport(history[i]))
        =>
            /\ Attempts <= max_retries + 1
            /\ (pc \in {"evaluate", "mw_return", "classify", "done"}
                    => Len(history) = n_past_retries + 1)
            /\ (AfterLoop => n_past_retries = max_retries)

C27_Witness ==
    /\ Done
    /\ req.content_type = TextHeader(OCTET_STREAM_WITH_PARAM)
    /\ max_retries = 2
    /\ Len(history) = 3
    /\ history[1].status = 503
    /\ history[2].kind = "error"
    /\ history[3].status = 429

====
